---- MODULE Spec2Model ----
(***************************************************************************)
(* Batched block-sparse matrix multiplication (32x32 tiles).               *)
(*                                                                         *)
(*   src/native/sparse_matmul_gpu.cu : the SDD kernel and the dispatcher   *)
(*                                     sparse_matmul                       *)
(*   src/unnamed/part_000            : the dispatcher                      *)
(*                                     batched_sparse_matmul_op            *)
(*                                                                         *)
(* Four specifications share the variables below:                          *)
(*   Spec      the two dispatchers, one call at a time                     *)
(*   SpecGrid  the work-groups of one launch writing the output buffer     *)
(*   SpecPipe  the threads of one work-group running the K loop            *)
(*   SpecSdd   the data one work-group moves and one thread accumulates    *)
(***************************************************************************)
EXTENDS Integers, Sequences, FiniteSets, TLC

VARIABLES
    dpc, dcall, dres,                       \* dispatcher call
    gpc, gcfg, gdone, gwrites,              \* launch grid and output buffer
    tsize_k, tpc, tk, ti, arrived, storage_a_tag, storage_b_tag, seen,
                                            \* work-group pipeline
    kin, kpc, kk, loader_a, loader_b, storage_a, storage_b, accumulator,
    issued, matrix_c                        \* SDD kernel data path

dvars == <<dpc, dcall, dres>>
gvars == <<gpc, gcfg, gdone, gwrites>>
tvars == <<tsize_k, tpc, tk, ti, arrived, storage_a_tag, storage_b_tag, seen>>
kvars == <<kin, kpc, kk, loader_a, loader_b, storage_a, storage_b, accumulator,
           issued, matrix_c>>
vars == <<dvars, gvars, tvars, kvars>>

(***************************************************************************)
(* Program constants.                                                      *)
(***************************************************************************)
\* The tile width: the literal 32 of sparse_matmul, TILE_32x32_WIDTH.
TILE_32x32_WIDTH == 32
\* The K step of the kernel loop and the slab width of tile<float, 32, 8>.
TILE_K == 8
\* warpSize: lanes per warp.
warpSize == 32
\* Output columns each thread accumulates (accumulator[4]).
ACC == 4
\* tile<float, 32, 8>::THREADS: threads per work-group.
THREADS == 256

(***************************************************************************)
(* Bounds of the model.                                                    *)
(***************************************************************************)
\* Leading batch dimensions per operand: 0..MaxBatchRank.
MaxBatchRank == 2
\* Tiles along the longer side of a dense operand.
MaxTiles == 2
\* Threads of the work-group whose interleavings are explored.
NumThreads == 3
\* K steps of the kernel loop: size_k is 0, 8, ..., 8 * MaxKSteps.
MaxKSteps == 4
\* K steps of the kernel whose data path is followed.
MaxSddSteps == 2
\* Batches of the launch whose data path is followed.
MaxSddBatches == 2

(***************************************************************************)
(* The host tensor library, as the dispatchers use it.  A tensor is its    *)
(* shape (a sequence of extents) and its element type.                     *)
(***************************************************************************)
RECURSIVE Prod(_)
Prod(s) == IF s = <<>> THEN 1 ELSE Head(s) * Prod(Tail(s))

\* A dimension index as the library wraps it: d in [-rank, rank) or an error.
DimOk(d, rank) == d >= -rank /\ d < rank
WrapDim(d, rank) == IF d < 0 THEN d + rank ELSE d

\* t.size(d)
Size(shape, d) == shape[WrapDim(d, Len(shape)) + 1]

\* t.flatten(0, end): raises when end is out of range or wraps before 0.
FlattenOk(shape, end) == DimOk(end, Len(shape))
Flatten(shape, end) ==
    LET e == WrapDim(end, Len(shape)) IN
    IF e = 0 THEN shape
    ELSE <<Prod(SubSeq(shape, 1, e + 1))>> \o SubSeq(shape, e + 2, Len(shape))

\* dense.sizes().slice(0, dense.dim() - 2) and sizes().vec() less two pop_back.
LeadingDims(shape) == SubSeq(shape, 1, Len(shape) - 2)

\* c.reshape(shape) raises unless the element counts agree.
ReshapeOk(from, to) == Prod(from) = Prod(to)

(***************************************************************************)
(* Mode strings are sequences of characters; mode.at(i) is mode[i + 1] and *)
(* raises std::out_of_range for i >= size.                                 *)
(***************************************************************************)
ModeSdd == <<"s", "d", "d">>
ModeDsd == <<"d", "s", "d">>
ModeDds == <<"d", "d", "s">>
ValidModes == {ModeSdd, ModeDsd, ModeDds}
At(mode, i) == mode[i + 1]

NoLaunch ==
    [kernel |-> "none", grid |-> <<0, 0, 0>>, num_blocks |-> 0,
     size_m |-> 0, size_n |-> 0, size_k |-> 0, num_batches |-> 0,
     trans_a |-> FALSE, trans_b |-> FALSE]

\* What a call leaves behind: how it ended, what it did on the way (in
\* order), the shape returned, the layout chosen and the launch parameters.
Outcome(outcome, events, shape, which, num_blocks, has_sparse, sparse_dim, launch) ==
    [outcome |-> outcome, events |-> events, shape |-> shape, layout |-> which,
     num_blocks |-> num_blocks, has_sparse |-> has_sparse,
     sparse_dim |-> sparse_dim, launch |-> launch]

Raise(events, which, num_blocks, has_sparse, sparse_dim, launch) ==
    Outcome("error", events, <<>>, which, num_blocks, has_sparse, sparse_dim, launch)

(***************************************************************************)
(* sparse_matmul (sparse_matmul_gpu.cu).                                   *)
(***************************************************************************)
\* The selection with trans_a read the wrong way round for dsd.
UseRowLayoutBadDsd(mode, trans_a, trans_b) ==
    \/ mode = ModeSdd
    \/ mode = ModeDsd /\ trans_a
    \/ mode = ModeDds /\ trans_b

\* Lines 109-111: the layout the kernel walks.
UseRowLayout(mode, trans_a, trans_b) ==
    \/ mode = ModeSdd
    \/ mode = ModeDsd /\ ~trans_a
    \/ mode = ModeDds /\ trans_b

\* Lines 112-113.
NumBlocks(layout) == layout.blocks \div 2
SparseWidth(layout) == (layout.table - 1) * TILE_32x32_WIDTH

\* Lines 139-142: the launch grid.
LaunchGrid(mode, num_blocks, num_batches, size_m, size_n) ==
    IF mode = ModeSdd THEN <<num_blocks, num_batches, 1>>
    ELSE <<num_batches,
           (size_m + 32 - 1) \div 32,
           (size_n + 32 - 1) \div 32>>

\* Lines 17-22: the kernel body runs for Float only; Half and every other
\* type fall through without a launch and without an error.
DispatchRuns(dtype) == dtype = "Float"

SparseMatmul(a, b, mode, row_layout, col_layout, trans_a, trans_b) ==
    LET which == IF UseRowLayout(mode, trans_a, trans_b) THEN "row" ELSE "col"
        layout == IF which = "row" THEN row_layout ELSE col_layout
        num_blocks == NumBlocks(layout)
        sparse_width == SparseWidth(layout)
    IN
    \* mode.at(1), mode.at(2) (lines 116-117) raise on a short string.
    IF Len(mode) < 3
    THEN Raise(<<>>, which, num_blocks, TRUE, sparse_width, NoLaunch)
    ELSE
    LET size_m == IF At(mode, 1) = "d"
                  THEN Size(a.shape, IF trans_a THEN -1 ELSE -2)
                  ELSE sparse_width
        size_n == IF At(mode, 2) = "d"
                  THEN Size(b.shape, IF trans_b THEN -2 ELSE -1)
                  ELSE sparse_width
        size_k == IF At(mode, 2) = "d"
                  THEN Size(b.shape, IF trans_b THEN -1 ELSE -2)
                  ELSE Size(a.shape, IF trans_a THEN -2 ELSE -1)
        dense == IF At(mode, 1) = "d" THEN a ELSE b
        shape == LeadingDims(dense.shape) \o
                 (IF At(mode, 0) = "d" THEN <<size_m, size_n>>
                  ELSE <<num_blocks, 32, 32>>)
        end_a == IF At(mode, 1) = "d" THEN -3 ELSE -4
        end_b == IF At(mode, 2) = "d" THEN -3 ELSE -4
    IN
    \* Lines 129-130: flatten raises before anything is allocated.
    IF ~FlattenOk(a.shape, end_a) \/ ~FlattenOk(b.shape, end_b)
    THEN Raise(<<>>, which, num_blocks, TRUE, sparse_width, NoLaunch)
    ELSE
    LET flat_a == Flatten(a.shape, end_a)
        num_batches == Size(flat_a, 0)
        c == IF At(mode, 0) = "d" THEN <<num_batches, size_m, size_n>>
             ELSE <<num_batches, num_blocks, 32, 32>>
        launch == [kernel |-> "sparse_matmul_sdd_32x32x8_kernel",
                   grid |-> LaunchGrid(mode, num_blocks, num_batches, size_m, size_n),
                   num_blocks |-> num_blocks,
                   size_m |-> size_m, size_n |-> size_n, size_k |-> size_k,
                   num_batches |-> num_batches,
                   trans_a |-> trans_a, trans_b |-> trans_b]
        events == IF DispatchRuns(a.dtype) THEN <<"alloc", "launch">> ELSE <<"alloc">>
        launched == IF DispatchRuns(a.dtype) THEN launch ELSE NoLaunch
    IN
    IF ReshapeOk(c, shape)
    THEN Outcome("returned", events, shape, which, num_blocks, TRUE, sparse_width, launched)
    ELSE Raise(events, which, num_blocks, TRUE, sparse_width, launched)

(***************************************************************************)
(* batched_sparse_matmul_op (part_000).                                    *)
(***************************************************************************)
\* data_ptr<float>() raises for a tensor of another element type.
DataPtrFloatOk(dtype) == dtype = "Float"

BatchedLaunch(kernel, total_blocks, total_batches, total_m, total_n, total_k,
              trans_a, trans_b) ==
    [kernel |-> kernel, grid |-> <<0, 0, 0>>, num_blocks |-> total_blocks,
     size_m |-> total_m, size_n |-> total_n, size_k |-> total_k,
     num_batches |-> total_batches, trans_a |-> trans_a, trans_b |-> trans_b]

\* Lines 19-48.
BatchedSdd(a, b, row_layout, col_layout, trans_a, trans_b) ==
    LET output_shape == LeadingDims(a.shape) \o
                        <<row_layout.blocks \div 2, TILE_32x32_WIDTH, TILE_32x32_WIDTH>>
        total_blocks == row_layout.blocks \div 2
    IN
    IF ~FlattenOk(a.shape, -3) \/ ~FlattenOk(b.shape, -3)
    THEN Raise(<<>>, "row", total_blocks, FALSE, 0, NoLaunch)
    ELSE
    LET flat_a == Flatten(a.shape, -3)
        flat_b == Flatten(b.shape, -3)
        total_batches == Size(flat_a, 0)
        total_m == Size(flat_a, IF trans_a THEN -1 ELSE -2)
        total_n == Size(flat_b, IF trans_b THEN -2 ELSE -1)
        total_k == Size(flat_b, IF trans_b THEN -1 ELSE -2)
        c == <<total_batches, total_blocks, TILE_32x32_WIDTH, TILE_32x32_WIDTH>>
        launch == BatchedLaunch("batched_sparse_matmul_op_32x32_sdd", total_blocks,
                                total_batches, total_m, total_n, total_k,
                                trans_a, trans_b)
    IN
    IF ~DataPtrFloatOk(a.dtype)
    THEN Raise(<<"alloc">>, "row", total_blocks, FALSE, 0, NoLaunch)
    ELSE IF ReshapeOk(c, output_shape)
    THEN Outcome("returned", <<"alloc", "launch">>, output_shape, "row",
                 total_blocks, FALSE, 0, launch)
    ELSE Raise(<<"alloc", "launch">>, "row", total_blocks, FALSE, 0, launch)

\* Lines 49-81.
BatchedDsd(a, b, row_layout, col_layout, trans_a, trans_b) ==
    LET which == IF trans_a THEN "col" ELSE "row"
        sparse == IF trans_a THEN col_layout ELSE row_layout
        total_m == (sparse.table - 1) * TILE_32x32_WIDTH
        total_n == Size(b.shape, IF trans_b THEN -2 ELSE -1)
        total_k == Size(b.shape, IF trans_b THEN -1 ELSE -2)
        output_shape == LeadingDims(b.shape) \o <<total_m, total_n>>
        total_blocks == sparse.blocks \div 2
    IN
    IF ~FlattenOk(a.shape, -4) \/ ~FlattenOk(b.shape, -3)
    THEN Raise(<<>>, which, total_blocks, TRUE, total_m, NoLaunch)
    ELSE
    LET flat_a == Flatten(a.shape, -4)
        total_batches == Size(flat_a, 0)
        c == <<total_batches, total_m, total_n>>
        launch == BatchedLaunch("batched_sparse_matmul_op_32x32_dsd", total_blocks,
                                total_batches, total_m, total_n, total_k,
                                trans_a, trans_b)
    IN
    IF ~DataPtrFloatOk(a.dtype)
    THEN Raise(<<"alloc">>, which, total_blocks, TRUE, total_m, NoLaunch)
    ELSE IF ReshapeOk(c, output_shape)
    THEN Outcome("returned", <<"alloc", "launch">>, output_shape, which,
                 total_blocks, TRUE, total_m, launch)
    ELSE Raise(<<"alloc", "launch">>, which, total_blocks, TRUE, total_m, launch)

\* Lines 82-115.
BatchedDds(a, b, row_layout, col_layout, trans_a, trans_b) ==
    LET which == IF trans_b THEN "row" ELSE "col"
        sparse == IF trans_b THEN row_layout ELSE col_layout
        total_m == Size(a.shape, IF trans_a THEN -1 ELSE -2)
        total_n == (sparse.table - 1) * TILE_32x32_WIDTH
        total_k == Size(a.shape, IF trans_a THEN -2 ELSE -1)
        output_shape == LeadingDims(a.shape) \o <<total_m, total_n>>
        total_blocks == sparse.blocks \div 2
    IN
    IF ~FlattenOk(a.shape, -3) \/ ~FlattenOk(b.shape, -4)
    THEN Raise(<<>>, which, total_blocks, TRUE, total_n, NoLaunch)
    ELSE
    LET flat_a == Flatten(a.shape, -3)
        total_batches == Size(flat_a, 0)
        c == <<total_batches, total_m, total_n>>
        launch == BatchedLaunch("batched_sparse_matmul_op_32x32_dds", total_blocks,
                                total_batches, total_m, total_n, total_k,
                                trans_a, trans_b)
    IN
    IF ~DataPtrFloatOk(a.dtype)
    THEN Raise(<<"alloc">>, which, total_blocks, TRUE, total_n, NoLaunch)
    ELSE IF ReshapeOk(c, output_shape)
    THEN Outcome("returned", <<"alloc", "launch">>, output_shape, which,
                 total_blocks, TRUE, total_n, launch)
    ELSE Raise(<<"alloc", "launch">>, which, total_blocks, TRUE, total_n, launch)

\* Line 116: for any other mode control flows off the end of a function that
\* returns a tensor.  That is undefined behaviour; nothing is raised, and the
\* caller gets whatever the build produces: a garbage tensor or a crash.
UndefinedOutcomes == {"garbage_return", "crash"}

BatchedSparseMatmulOp(a, b, mode, row_layout, col_layout, trans_a, trans_b, ub) ==
    IF mode = ModeSdd THEN BatchedSdd(a, b, row_layout, col_layout, trans_a, trans_b)
    ELSE IF mode = ModeDsd THEN BatchedDsd(a, b, row_layout, col_layout, trans_a, trans_b)
    ELSE IF mode = ModeDds THEN BatchedDds(a, b, row_layout, col_layout, trans_a, trans_b)
    ELSE Outcome(ub, <<>>, <<>>, "none", 0, FALSE, 0, NoLaunch)

(***************************************************************************)
(* The calls the model makes.                                              *)
(***************************************************************************)
BatchDims == {2, 3}

RECURSIVE SeqsUpTo(_, _)
SeqsUpTo(S, n) ==
    IF n = 0 THEN {<<>>}
    ELSE LET shorter == SeqsUpTo(S, n - 1) IN
         shorter \cup {<<x>> \o s : x \in S, s \in {t \in shorter : Len(t) = n - 1}}

LeadShapes == SeqsUpTo(BatchDims, MaxBatchRank)

\* Trailing dimensions: a dense matrix, or the (blocks, 32, 32) of a sparse
\* operand.
DenseTrails == {<<32, 32>>, <<32, 32 * MaxTiles>>, <<32 * MaxTiles, 32>>}
SparseTrails == {<<2, 32, 32>>}
Trails == DenseTrails \cup SparseTrails

DTypes == {"Float", "Half", "Double"}

Modes == ValidModes \cup {<<"d", "d", "d">>, <<"s", "d">>}

\* A layout is the length of its block list (two entries per block) and the
\* length of its table (one entry per tile row or column, plus the sentinel).
LayoutPairs ==
    {<<[blocks |-> 4, table |-> 2], [blocks |-> 6, table |-> 3]>>,
     <<[blocks |-> 6, table |-> 3], [blocks |-> 4, table |-> 2]>>}

NoCall ==
    [fn |-> "none", a |-> [shape |-> <<>>, dtype |-> "Float"],
     b |-> [shape |-> <<>>, dtype |-> "Float"], mode |-> <<>>,
     row_layout |-> [blocks |-> 0, table |-> 0],
     col_layout |-> [blocks |-> 0, table |-> 0],
     trans_a |-> FALSE, trans_b |-> FALSE]

NoResult == Outcome("none", <<>>, <<>>, "none", 0, FALSE, 0, NoLaunch)

Calls(fn) ==
    {[fn |-> fn, a |-> [shape |-> la \o ta, dtype |-> dt],
      b |-> [shape |-> lb \o tb, dtype |-> dt], mode |-> mode,
      row_layout |-> lp[1], col_layout |-> lp[2],
      trans_a |-> tra, trans_b |-> trb] :
        la \in LeadShapes, lb \in LeadShapes, ta \in Trails, tb \in Trails,
        dt \in DTypes, mode \in Modes, lp \in LayoutPairs,
        tra \in BOOLEAN, trb \in BOOLEAN}

DInit == dpc = "idle" /\ dcall = NoCall /\ dres = NoResult

CallSparseMatmul ==
    /\ dpc = "idle"
    /\ \E c \in Calls("sparse_matmul") :
        /\ dcall' = c
        /\ dres' = SparseMatmul(c.a, c.b, c.mode, c.row_layout, c.col_layout,
                                c.trans_a, c.trans_b)
    /\ dpc' = "done"
    /\ UNCHANGED <<gvars, tvars, kvars>>

CallBatchedSparseMatmulOp ==
    /\ dpc = "idle"
    /\ \E c \in Calls("batched_sparse_matmul_op"), ub \in UndefinedOutcomes :
        /\ dcall' = c
        /\ dres' = BatchedSparseMatmulOp(c.a, c.b, c.mode, c.row_layout,
                                         c.col_layout, c.trans_a, c.trans_b, ub)
    /\ dpc' = "done"
    /\ UNCHANGED <<gvars, tvars, kvars>>

\* The caller takes the result; the dispatchers keep no state between calls.
NextCall ==
    /\ dpc = "done"
    /\ dpc' = "idle" /\ dcall' = NoCall /\ dres' = NoResult
    /\ UNCHANGED <<gvars, tvars, kvars>>

(***************************************************************************)
(* The kernel's output addressing (sparse_matmul_gpu.cu, lines 45-55 and   *)
(* 97-99), run over the grid sparse_matmul launches.                       *)
(***************************************************************************)
\* layout.get(i).idx(): the block's linear position in the block list.
BlockIdx(i) == i

\* Line 55.
OffsetC(blockIdx_y, num_blocks, block_idx) ==
    (blockIdx_y * num_blocks + block_idx) * 32 * 32

\* Lines 45-46.
LaneIdx(threadIdx_x) == threadIdx_x % warpSize
WarpIdx(threadIdx_x) == threadIdx_x \div warpSize

\* Line 99: the address thread threadIdx_x writes accumulator[i] to.
WriteAddr(offset_c, threadIdx_x, i) ==
    offset_c + LaneIdx(threadIdx_x) * 32 + (WarpIdx(threadIdx_x) * 4 + i)

\* One more write at addr in a table of write counts.
Bump(w, addr) ==
    IF addr \in DOMAIN w THEN [w EXCEPT ![addr] = @ + 1] ELSE w @@ (addr :> 1)

\* Lines 98-99, for one thread and then for the threads of a work-group.
RECURSIVE ThreadWrites(_, _, _, _)
ThreadWrites(w, offset_c, threadIdx_x, i) ==
    IF i = ACC THEN w
    ELSE ThreadWrites(Bump(w, WriteAddr(offset_c, threadIdx_x, i)),
                      offset_c, threadIdx_x, i + 1)

\* Write counts added pointwise.
Merge(w1, w2) ==
    [x \in DOMAIN w1 \cup DOMAIN w2 |->
        (IF x \in DOMAIN w1 THEN w1[x] ELSE 0) +
        (IF x \in DOMAIN w2 THEN w2[x] ELSE 0)]

\* The writes of threads lo .. hi - 1 of one work-group.
RECURSIVE ThreadRangeWrites(_, _, _)
ThreadRangeWrites(offset_c, lo, hi) ==
    IF hi - lo = 1 THEN ThreadWrites(<<>>, offset_c, lo, 0)
    ELSE LET mid == (lo + hi) \div 2 IN
         Merge(ThreadRangeWrites(offset_c, lo, mid),
               ThreadRangeWrites(offset_c, mid, hi))

\* Every thread of the work-group: threadIdx.x in 0 .. THREADS - 1.
GroupWrites(offset_c) == ThreadRangeWrites(offset_c, 0, THREADS)

\* The work-groups of a grid: blockIdx.x, blockIdx.y, blockIdx.z.
WorkGroups(grid) ==
    {<<x, y, z>> : x \in 0..(grid[1] - 1), y \in 0..(grid[2] - 1),
                   z \in 0..(grid[3] - 1)}

NoGrid == [mode |-> <<>>, grid |-> <<0, 0, 0>>, num_blocks |-> 0, csize |-> 0]

\* The launches examined: well-formed single-precision operands with one
\* batch dimension.
GridBatches == {<<1>>, <<2>>}
GridLayoutPairs ==
    {<<[blocks |-> 2, table |-> 2], [blocks |-> 2, table |-> 2]>>,
     <<[blocks |-> 4, table |-> 3], [blocks |-> 4, table |-> 3]>>}

GridCall(lead, mode, lp, ta, tb) ==
    [a |-> [shape |-> lead \o ta, dtype |-> "Float"],
     b |-> [shape |-> lead \o tb, dtype |-> "Float"], mode |-> mode,
     row_layout |-> lp[1], col_layout |-> lp[2],
     trans_a |-> FALSE, trans_b |-> FALSE]

GridCalls ==
    UNION {
        {GridCall(lead, ModeSdd, lp, ta, tb) : ta \in DenseTrails, tb \in DenseTrails}
        \cup {GridCall(lead, ModeDsd, lp, <<lp[1].blocks \div 2, 32, 32>>, tb) :
                  tb \in DenseTrails}
        \cup {GridCall(lead, ModeDds, lp, ta, <<lp[2].blocks \div 2, 32, 32>>) :
                  ta \in DenseTrails}
        : lead \in GridBatches, lp \in GridLayoutPairs}

\* A block index past the end of the block list reads outside the layout:
\* the value is whatever lies there.
GarbageIdx == {0, 1}

GInit ==
    /\ \E c \in GridCalls :
        LET r == SparseMatmul(c.a, c.b, c.mode, c.row_layout, c.col_layout,
                              c.trans_a, c.trans_b) IN
        /\ r.outcome = "returned"
        /\ r.launch.kernel = "sparse_matmul_sdd_32x32x8_kernel"
        /\ gcfg = [mode |-> c.mode, grid |-> r.launch.grid,
                   num_blocks |-> r.launch.num_blocks, csize |-> Prod(r.shape)]
    /\ gpc = "running" /\ gdone = {} /\ gwrites = <<>>

\* One work-group runs to its end.
RunWorkGroup ==
    /\ gpc = "running"
    /\ \E wg \in WorkGroups(gcfg.grid) \ gdone :
        \E idx \in (IF wg[1] < gcfg.num_blocks THEN {BlockIdx(wg[1])} ELSE GarbageIdx) :
            /\ gwrites' = Merge(gwrites,
                    GroupWrites(OffsetC(wg[2], gcfg.num_blocks, idx)))
            /\ gdone' = gdone \cup {wg}
    /\ UNCHANGED <<gpc, gcfg, dvars, tvars, kvars>>

\* The launch is complete when every work-group has run.
GridComplete ==
    /\ gpc = "running"
    /\ gdone = WorkGroups(gcfg.grid)
    /\ gpc' = "done"
    /\ UNCHANGED <<gcfg, gdone, gwrites, dvars, tvars, kvars>>


(***************************************************************************)
(* The K loop of the kernel as the threads of one work-group run it        *)
(* (sparse_matmul_gpu.cu, lines 67-95).  Shared storage is tracked by the  *)
(* step of the commit that last wrote each thread's part of each half     *)
(* (-1 before the first commit).                                           *)
(***************************************************************************)
Threads == 1..NumThreads

\* A kernel with a single buffer: every step uses half 0.
BufferIndexSingle(k) == 0

\* Lines 70-71, 88-89: the half of shared storage step k uses.
BufferIndex(k) == (k \div 8) % 2

\* Line 68: the loop test.
LoopEntry(k, size_k) == IF k < size_k THEN "commit_a" ELSE "write"

TInit ==
    /\ tsize_k \in {TILE_K * n : n \in 0..MaxKSteps}
    /\ tk = [t \in Threads |-> 0]
    /\ tpc = [t \in Threads |-> LoopEntry(0, tsize_k)]
    /\ ti = [t \in Threads |-> 0]
    /\ arrived = [t \in Threads |-> 0]
    /\ storage_a_tag = [h \in 0..1 |-> [t \in Threads |-> -1]]
    /\ storage_b_tag = [h \in 0..1 |-> [t \in Threads |-> -1]]
    /\ seen = [t \in Threads |-> [step |-> 0, tags |-> {}]]

\* Line 70: loader_a.commit(storage_a, k / 8 % 2).
CommitA(t) ==
    /\ tpc[t] = "commit_a"
    /\ storage_a_tag' = [storage_a_tag EXCEPT ![BufferIndex(tk[t])][t] = tk[t] \div 8]
    /\ tpc' = [tpc EXCEPT ![t] = "commit_b"]
    /\ UNCHANGED <<tsize_k, tk, ti, arrived, storage_b_tag, seen, dvars, gvars, kvars>>

\* Line 71: loader_b.commit(storage_b, k / 8 % 2).
CommitB(t) ==
    /\ tpc[t] = "commit_b"
    /\ storage_b_tag' = [storage_b_tag EXCEPT ![BufferIndex(tk[t])][t] = tk[t] \div 8]
    /\ tpc' = [tpc EXCEPT ![t] = "sync"]
    /\ UNCHANGED <<tsize_k, tk, ti, arrived, storage_a_tag, seen, dvars, gvars, kvars>>

\* Line 72: __syncthreads().  A thread arrives, and leaves once every thread
\* of the work-group has arrived at this barrier.
SyncArrive(t) ==
    /\ tpc[t] = "sync"
    /\ arrived' = [arrived EXCEPT ![t] = @ + 1]
    /\ tpc' = [tpc EXCEPT ![t] = "wait"]
    /\ UNCHANGED <<tsize_k, tk, ti, storage_a_tag, storage_b_tag, seen, dvars, gvars, kvars>>

BarrierOpen(t) == \A u \in Threads : arrived[u] >= arrived[t]

SyncLeave(t) ==
    /\ tpc[t] = "wait"
    /\ BarrierOpen(t)
    /\ tpc' = [tpc EXCEPT ![t] = "prefetch"]
    /\ UNCHANGED <<tsize_k, tk, ti, arrived, storage_a_tag, storage_b_tag, seen, dvars, gvars, kvars>>

\* Lines 75-78: the prefetch of the next slabs goes to registers of the
\* thread's own; shared storage is not touched.
Prefetch(t) ==
    /\ tpc[t] = "prefetch"
    /\ tpc' = [tpc EXCEPT ![t] = "read"]
    /\ ti' = [ti EXCEPT ![t] = 0]
    /\ UNCHANGED <<tsize_k, tk, arrived, storage_a_tag, storage_b_tag, seen, dvars, gvars, kvars>>

\* Lines 83-94, one iteration i: four reads of storage_b and one of
\* storage_a, in half k / 8 % 2.  The elements read were committed by other
\* threads; seen records the commit steps found in the two halves read.
\* After the last iteration: k += 8 and the loop test.
Read(t) ==
    /\ tpc[t] = "read"
    /\ seen' = [seen EXCEPT ![t] =
                    [step |-> tk[t] \div 8,
                     tags |-> {storage_b_tag[BufferIndex(tk[t])][u] : u \in Threads} \cup
                              {storage_a_tag[BufferIndex(tk[t])][u] : u \in Threads}]]
    /\ IF ti[t] + 1 < 8
       THEN /\ ti' = [ti EXCEPT ![t] = @ + 1]
            /\ UNCHANGED <<tk, tpc>>
       ELSE /\ ti' = [ti EXCEPT ![t] = 0]
            /\ tk' = [tk EXCEPT ![t] = @ + 8]
            /\ tpc' = [tpc EXCEPT ![t] = LoopEntry(tk[t] + 8, tsize_k)]
    /\ UNCHANGED <<tsize_k, arrived, storage_a_tag, storage_b_tag, dvars, gvars, kvars>>

\* Lines 98-99: the thread writes its results and ends.
WriteOut(t) ==
    /\ tpc[t] = "write"
    /\ tpc' = [tpc EXCEPT ![t] = "done"]
    /\ UNCHANGED <<seen, tsize_k, tk, ti, arrived, storage_a_tag, storage_b_tag, dvars, gvars, kvars>>

(***************************************************************************)
(* The data path of the SDD kernel (sparse_matmul_gpu.cu, lines 43-99):    *)
(* what one work-group stages and what one of its threads accumulates and  *)
(* writes.  The interleaving of the threads is the subject of the          *)
(* pipeline above; here the work-group's slabs move as wholes.             *)
(***************************************************************************)
\* The layout: one (row, col) per non-zero tile, in list order.
SddLayout == <<[row |-> 0, col |-> 1], [row |-> 1, col |-> 0]>>

\* layout.get(i): the i-th block's row, col and position in the list.
LayoutGet(layout, i) == [row |-> layout[i + 1].row, col |-> layout[i + 1].col, idx |-> i]

\* Integer-valued operand buffers, by flat address; a read outside the
\* buffer yields whatever lies there.
ElemA(pattern, addr) == (addr * pattern + (addr \div 8)) % 5
ElemB(pattern, addr) == ((addr + pattern * (addr \div 3)) % 3) + 1

ReadA(in, addr) ==
    IF addr >= 0 /\ addr < in.num_batches * in.size_m * in.size_k
    THEN ElemA(in.pattern, addr) ELSE in.garbage
ReadB(in, addr) ==
    IF addr >= 0 /\ addr < in.num_batches * in.size_k * in.size_n
    THEN ElemB(in.pattern, addr) ELSE in.garbage

\* tile<float, 32, 8>::loader.  prefetch(src, row, col, ld) stages the slab
\* at (row, col) of a matrix of leading dimension ld: 32 x 8 as stored, or
\* 8 x 32 stored and read transposed when the loader was built with TRUE.
\* Element (r, i) of the staged slab, r in 0..31 and i in 0..7, is at:
SlabAddr(transposed, args, r, i) ==
    IF transposed THEN (args[1] + i) * args[3] + args[2] + r
    ELSE (args[1] + r) * args[3] + args[2] + i

\* Lines 50-55.
TileM(in) == LayoutGet(in.layout, in.blockIdx_x).row * 32
TileN(in) == LayoutGet(in.layout, in.blockIdx_x).col * 32
OffsetA(in) == in.blockIdx_y * in.size_m * in.size_k
OffsetB(in) == in.blockIdx_y * in.size_k * in.size_n
OffsetCOf(in) ==
    OffsetC(in.blockIdx_y, in.num_blocks, LayoutGet(in.layout, in.blockIdx_x).idx)

\* Lines 64-65: the arguments (row, col, ld) of the priming prefetches.
PrimeArgsA(in) ==
    <<IF in.trans_a THEN 0 ELSE TileM(in),
      IF in.trans_a THEN TileM(in) ELSE 0,
      IF in.trans_a THEN in.size_m ELSE in.size_k>>
PrimeArgsB(in) ==
    <<IF in.trans_b THEN TileN(in) ELSE 0,
      IF in.trans_b THEN 0 ELSE TileN(in),
      IF in.trans_b THEN in.size_k ELSE in.size_n>>

\* Lines 76-77: the arguments, in the order passed, of the prefetches in
\* the loop.
LoopArgsA(in, k) ==
    <<IF in.trans_a THEN in.size_m ELSE in.size_k,
      IF in.trans_a THEN k + 8 ELSE TileM(in),
      IF in.trans_a THEN TileM(in) ELSE k + 8>>
LoopArgsB(in, k) ==
    <<IF in.trans_b THEN in.size_k ELSE in.size_n,
      IF in.trans_b THEN TileN(in) ELSE k + 8,
      IF in.trans_b THEN k + 8 ELSE TileN(in)>>

\* Lines 60-61: loader_a(trans_a), loader_b(!trans_b).
LoaderATransposed(in) == in.trans_a
LoaderBTransposed(in) == ~in.trans_b

\* storage.get(half, r, i) of a committed slab.
GetA(in, slab, r, i) ==
    ReadA(in, OffsetA(in) + SlabAddr(LoaderATransposed(in), slab, r, i))
GetB(in, slab, r, i) ==
    ReadB(in, OffsetB(in) + SlabAddr(LoaderBTransposed(in), slab, r, i))

\* Lines 83-94: the eight unrolled iterations over one committed slab.
RECURSIVE AccumulateSlab(_, _, _, _, _)
AccumulateSlab(in, acc, slab_a, slab_b, i) ==
    IF i = TILE_K THEN acc
    ELSE LET lane_idx == LaneIdx(in.threadIdx_x)
             warp_idx == WarpIdx(in.threadIdx_x)
             local_b == [j \in 0..(ACC - 1) |-> GetB(in, slab_b, warp_idx * 4 + j, i)]
             local_a == GetA(in, slab_a, lane_idx, i)
             next == [j \in 0..(ACC - 1) |-> acc[j] + local_a * local_b[j]]
         IN AccumulateSlab(in, next, slab_a, slab_b, i + 1)

NoArgs == <<0, 0, 0>>
NoKernel ==
    [size_m |-> 0, size_n |-> 0, size_k |-> 0, trans_a |-> FALSE,
     trans_b |-> FALSE, num_blocks |-> 0, num_batches |-> 0, layout |-> <<>>,
     blockIdx_x |-> 0, blockIdx_y |-> 0, threadIdx_x |-> 0, garbage |-> 0,
     pattern |-> 0]

GarbageValues == {0, 7}
Patterns == {1, 2}

\* One thread of one work-group of an SDD launch over SddLayout: two tile
\* rows and two tile columns of dense operands.
KInit ==
    /\ kin \in
        [size_m : {32 * 2}, size_n : {32 * 2},
         size_k : {TILE_K * n : n \in 0..MaxSddSteps},
         trans_a : BOOLEAN, trans_b : BOOLEAN,
         num_blocks : {Len(SddLayout)}, num_batches : {MaxSddBatches},
         layout : {SddLayout},
         blockIdx_x : 0..(Len(SddLayout) - 1),
         blockIdx_y : 0..(MaxSddBatches - 1),
         threadIdx_x : 0..(THREADS - 1),
         garbage : GarbageValues, pattern : Patterns]
    /\ kpc = "prime"
    /\ kk = 0
    /\ loader_a = NoArgs /\ loader_b = NoArgs
    /\ storage_a = <<NoArgs, NoArgs>> /\ storage_b = <<NoArgs, NoArgs>>
    /\ accumulator = [j \in 0..(ACC - 1) |-> 0]
    /\ issued = <<>>
    /\ matrix_c = <<>>

KLoopEntry(k, size_k) == IF k < size_k THEN "commit" ELSE "write"

\* Lines 63-65.
Prime ==
    /\ kpc = "prime"
    /\ loader_a' = PrimeArgsA(kin)
    /\ loader_b' = PrimeArgsB(kin)
    /\ issued' = <<[operand |-> "a", loop |-> FALSE, k |-> 0, args |-> PrimeArgsA(kin)],
                   [operand |-> "b", loop |-> FALSE, k |-> 0, args |-> PrimeArgsB(kin)]>>
    /\ kpc' = KLoopEntry(0, kin.size_k)
    /\ UNCHANGED <<kin, kk, storage_a, storage_b, accumulator, matrix_c,
                   dvars, gvars, tvars>>

\* Lines 70-72.
Commit ==
    /\ kpc = "commit"
    /\ storage_a' = [storage_a EXCEPT ![BufferIndex(kk) + 1] = loader_a]
    /\ storage_b' = [storage_b EXCEPT ![BufferIndex(kk) + 1] = loader_b]
    /\ kpc' = "prefetch"
    /\ UNCHANGED <<kin, kk, loader_a, loader_b, accumulator, issued, matrix_c,
                   dvars, gvars, tvars>>

\* Lines 75-78, the branch taken.
PrefetchNext ==
    /\ kpc = "prefetch"
    /\ kk + 8 < kin.size_k
    /\ loader_a' = LoopArgsA(kin, kk)
    /\ loader_b' = LoopArgsB(kin, kk)
    /\ issued' = issued \o
                 <<[operand |-> "a", loop |-> TRUE, k |-> kk, args |-> LoopArgsA(kin, kk)],
                   [operand |-> "b", loop |-> TRUE, k |-> kk, args |-> LoopArgsB(kin, kk)]>>
    /\ kpc' = "accumulate"
    /\ UNCHANGED <<kin, kk, storage_a, storage_b, accumulator, matrix_c,
                   dvars, gvars, tvars>>

\* Lines 75-78, on the final step.
PrefetchSkip ==
    /\ kpc = "prefetch"
    /\ ~(kk + 8 < kin.size_k)
    /\ kpc' = "accumulate"
    /\ UNCHANGED <<kin, kk, loader_a, loader_b, storage_a, storage_b, accumulator,
                   issued, matrix_c, dvars, gvars, tvars>>

\* Lines 83-95, then k += 8 and the loop test of line 68.
Accumulate ==
    /\ kpc = "accumulate"
    /\ accumulator' = AccumulateSlab(kin, accumulator,
                                     storage_a[BufferIndex(kk) + 1],
                                     storage_b[BufferIndex(kk) + 1], 0)
    /\ kk' = kk + 8
    /\ kpc' = KLoopEntry(kk + 8, kin.size_k)
    /\ UNCHANGED <<kin, loader_a, loader_b, storage_a, storage_b, issued, matrix_c,
                   dvars, gvars, tvars>>

\* Lines 98-99.
WriteC ==
    /\ kpc = "write"
    /\ matrix_c' = [addr \in {WriteAddr(OffsetCOf(kin), kin.threadIdx_x, i) :
                                 i \in 0..(ACC - 1)} |->
                       LET i == CHOOSE i \in 0..(ACC - 1) :
                                    WriteAddr(OffsetCOf(kin), kin.threadIdx_x, i) = addr
                       IN accumulator[i]]
    /\ kpc' = "done"
    /\ UNCHANGED <<kin, kk, loader_a, loader_b, storage_a, storage_b, accumulator,
                   issued, dvars, gvars, tvars>>

(***************************************************************************)
(* Properties.                                                             *)
(***************************************************************************)
\* For a valid mode, which operand is sparse, and the operands' leading
\* batch dimensions: all but the trailing two (dense) or three (sparse).
ASparse(mode) == mode = ModeDsd
BSparse(mode) == mode = ModeDds

SparseShaped(shape) ==
    Len(shape) >= 3 /\ shape[Len(shape)] = 32 /\ shape[Len(shape) - 1] = 32

LeadA(c) ==
    IF ASparse(c.mode) THEN SubSeq(c.a.shape, 1, Len(c.a.shape) - 3)
    ELSE SubSeq(c.a.shape, 1, Len(c.a.shape) - 2)
LeadB(c) ==
    IF BSparse(c.mode) THEN SubSeq(c.b.shape, 1, Len(c.b.shape) - 3)
    ELSE SubSeq(c.b.shape, 1, Len(c.b.shape) - 2)

WellFormedCall(c) ==
    /\ c.mode \in ValidModes
    /\ c.a.dtype = "Float"
    /\ ASparse(c.mode) => SparseShaped(c.a.shape)
    /\ BSparse(c.mode) => SparseShaped(c.b.shape)

\* The layout the specification selects, and the quantities derived from it.
RowIndexed(c) ==
    \/ c.mode = ModeSdd
    \/ c.mode = ModeDsd /\ ~c.trans_a
    \/ c.mode = ModeDds /\ c.trans_b
Selected(c) == IF RowIndexed(c) THEN c.row_layout ELSE c.col_layout
Unselected(c) == IF RowIndexed(c) THEN c.col_layout ELSE c.row_layout

\* The reduction extent each operand brings: a matrix dimension of a dense
\* operand, the tile count of the other axis of a sparse one.
ReductionA(c) ==
    IF ASparse(c.mode) THEN (Unselected(c).table - 1) * 32
    ELSE Size(c.a.shape, IF c.trans_a THEN -2 ELSE -1)
ReductionB(c) ==
    IF BSparse(c.mode) THEN (Unselected(c).table - 1) * 32
    ELSE Size(c.b.shape, IF c.trans_b THEN -1 ELSE -2)

\* The trailing output shape of the mode table.
TrailingShape(c) ==
    IF c.mode = ModeSdd THEN <<Selected(c).blocks \div 2, 32, 32>>
    ELSE IF c.mode = ModeDsd
    THEN <<(Selected(c).table - 1) * 32, Size(c.b.shape, IF c.trans_b THEN -2 ELSE -1)>>
    ELSE <<Size(c.a.shape, IF c.trans_a THEN -1 ELSE -2), (Selected(c).table - 1) * 32>>

Launched(r) == \E n \in DOMAIN r.events : r.events[n] = "launch"

\* C1: when a launch of sparse_matmul has run all its work-groups, every
\* element of the output buffer has been written exactly once.
C1_EveryElementWrittenOnce ==
    gpc = "done" =>
        \A x \in 0..(gcfg.csize - 1) : x \in DOMAIN gwrites /\ gwrites[x] = 1

\* The same for SDD launches alone, where the grid is (blocks, batches):
\* exactly the output buffer is written, each element once.
SddEveryElementWrittenOnce ==
    (gpc = "done" /\ gcfg.mode = ModeSdd) =>
        /\ DOMAIN gwrites = 0..(gcfg.csize - 1)
        /\ \A x \in DOMAIN gwrites : gwrites[x] = 1

\* C2: a call with a mode other than sdd, dsd, dds ends in an error before
\* anything is allocated or launched.
C2_InvalidModeRejected ==
    (dpc = "done" /\ dcall.mode \notin ValidModes) =>
        dres.outcome = "error" /\ dres.events = <<>>

\* C3: a call whose operands disagree on the reduction extent or on the
\* flattened batch size ends in an error and launches nothing.
C3_MismatchRejectedBeforeLaunch ==
    (/\ dpc = "done"
     /\ WellFormedCall(dcall)
     /\ \/ ReductionA(dcall) # ReductionB(dcall)
        \/ Prod(LeadA(dcall)) # Prod(LeadB(dcall))) =>
        dres.outcome = "error" /\ ~Launched(dres)

\* C4: sparse_matmul on operands that are not single precision ends in an
\* error, launches nothing and returns no tensor.
C4_OtherPrecisionRejected ==
    (dpc = "done" /\ dcall.fn = "sparse_matmul" /\ dcall.a.dtype # "Float") =>
        dres.outcome = "error" /\ ~Launched(dres)

\* C6: for operands with the same leading batch dimensions (none included),
\* the call returns a tensor of those dimensions followed by the mode's
\* trailing shape, computed over a batch of their product.
C6_BatchShapeRestored ==
    (/\ dpc = "done"
     /\ WellFormedCall(dcall)
     /\ LeadA(dcall) = LeadB(dcall)) =>
        /\ dres.outcome = "returned"
        /\ dres.shape = LeadA(dcall) \o TrailingShape(dcall)
        /\ dres.launch.num_batches = Prod(LeadA(dcall))

\* The same with at least one leading batch dimension.
BatchShapeRestoredWhenBatched ==
    (/\ dpc = "done"
     /\ WellFormedCall(dcall)
     /\ LeadA(dcall) = LeadB(dcall)
     /\ Len(LeadA(dcall)) >= 1) =>
        /\ dres.outcome = "returned"
        /\ dres.shape = LeadA(dcall) \o TrailingShape(dcall)
        /\ dres.launch.num_batches = Prod(LeadA(dcall))

\* C7: for a valid mode both dispatchers walk the row-indexed layout exactly
\* for sdd, for dsd without trans_a and for dds with trans_b, the
\* column-indexed layout otherwise, and take num_blocks as half the length
\* of that layout's block list and the sparse dimension as 32 times one less
\* than the length of its table.
C7_LayoutSelection ==
    (dpc = "done" /\ dcall.mode \in ValidModes) =>
        /\ dres.layout = "row" <=> RowIndexed(dcall)
        /\ dres.layout = "col" <=> ~RowIndexed(dcall)
        /\ dres.num_blocks = Selected(dcall).blocks \div 2
        /\ dres.has_sparse => dres.sparse_dim = (Selected(dcall).table - 1) * 32

\* C7 witness: a dsd call with trans_a that ran on the column-indexed
\* layout, whose table differs from the row-indexed one.
C7_Witness ==
    /\ dpc = "done"
    /\ dcall.fn = "sparse_matmul"
    /\ dcall.mode = ModeDsd /\ dcall.trans_a
    /\ dres.outcome = "returned"
    /\ dres.layout = "col"
    /\ dres.sparse_dim = (dcall.col_layout.table - 1) * 32
    /\ dcall.col_layout # dcall.row_layout

\* C5: a thread reading in step s finds, in half s mod 2 of both storages,
\* every thread's commit of step s and nothing else; no thread has begun
\* the commit of step s + 2.
C5_ReadSeesItsOwnSlab ==
    \A t \in Threads :
        /\ seen[t].tags \subseteq {seen[t].step}
        /\ tpc[t] = "read" =>
            LET s == tk[t] \div 8 IN
            \A u \in Threads :
                /\ storage_a_tag[s % 2][u] = s
                /\ storage_b_tag[s % 2][u] = s
                /\ tk[u] \div 8 >= s + 2 => (tk[u] \div 8 = s + 2 /\ tpc[u] = "commit_a")

\* C5 witness: a thread has read, in step s >= 2, a half that held the slab
\* of step s - 2 before, while another thread has already committed the
\* slab of step s + 1 to the other half.
C5_Witness ==
    \E t \in Threads, u \in Threads :
        /\ tpc[t] = "read" /\ ti[t] > 0
        /\ tk[t] \div 8 >= 2
        /\ seen[t] = [step |-> tk[t] \div 8, tags |-> {tk[t] \div 8}]
        /\ tk[u] = tk[t] + 8 /\ tpc[u] = "wait"
        /\ storage_a_tag[(tk[u] \div 8) % 2][u] = tk[u] \div 8

\* The operands as matrices: op(A)[b][row][k] and op(B)[b][k][col].
OpA(in, b, row, k) ==
    ElemA(in.pattern, b * in.size_m * in.size_k +
          (IF in.trans_a THEN k * in.size_m + row ELSE row * in.size_k + k))
OpB(in, b, k, col) ==
    ElemB(in.pattern, b * in.size_k * in.size_n +
          (IF in.trans_b THEN col * in.size_k + k ELSE k * in.size_n + col))

RECURSIVE Dot(_, _, _, _, _)
Dot(in, b, row, col, k) ==
    IF k = in.size_k THEN 0
    ELSE OpA(in, b, row, k) * OpB(in, b, k, col) + Dot(in, b, row, col, k + 1)

\* Element (b, i, lane, q) of the output written by the thread followed,
\* against the matrix product of the block's tile.
ThreadOutputIsProduct ==
    LET blk == kin.layout[kin.blockIdx_x + 1]
        lane == kin.threadIdx_x % 32
    IN
    \A j \in 0..3 :
        LET q == (kin.threadIdx_x \div 32) * 4 + j
            addr == ((kin.blockIdx_y * kin.num_blocks + kin.blockIdx_x) * 32 + lane) * 32 + q
        IN
        /\ addr \in DOMAIN matrix_c
        /\ matrix_c[addr] = Dot(kin, kin.blockIdx_y, 32 * blk.row + lane, 32 * blk.col + q, 0)

\* C8: for size_k a positive multiple of 8, the output elements a thread
\* writes are the matrix product of the block's tile.
C8_SddTileIsMatrixProduct ==
    (kpc = "done" /\ kin.size_k > 0) => ThreadOutputIsProduct

\* The same when the loop runs a single step, so that only the priming
\* prefetch feeds it.
SingleStepTileIsMatrixProduct ==
    (kpc = "done" /\ kin.size_k = 8) => ThreadOutputIsProduct

\* The argument holding the K origin: where the priming prefetch passes 0.
KSlot(in, operand) ==
    IF operand = "a" THEN (IF in.trans_a THEN 1 ELSE 2)
    ELSE (IF in.trans_b THEN 2 ELSE 1)

PrimeArgsOf(operand) == IF operand = "a" THEN issued[1].args ELSE issued[2].args

\* C9: every prefetch in the loop passes the arguments of the priming
\* prefetch, in the same order, with only the K origin advanced to k + 8.
C9_LoopPrefetchAdvancesK ==
    \A n \in DOMAIN issued :
        issued[n].loop =>
            issued[n].args =
                [PrimeArgsOf(issued[n].operand) EXCEPT
                    ![KSlot(kin, issued[n].operand)] = issued[n].k + 8]

\* C10: the eight K positions of every slab the kernel asks for lie inside
\* the reduction range [0, size_k).
C10_PrefetchInsideK ==
    \A n \in DOMAIN issued :
        /\ issued[n].args[KSlot(kin, issued[n].operand)] >= 0
        /\ issued[n].args[KSlot(kin, issued[n].operand)] + 8 <= kin.size_k

\* The same for the priming prefetch alone, when size_k is positive.
PrimingInsideK ==
    kin.size_k > 0 =>
        \A n \in DOMAIN issued :
            ~issued[n].loop =>
                issued[n].args[KSlot(kin, issued[n].operand)] + 8 <= kin.size_k

(***************************************************************************)
(* Specifications.  Each runs one part of the program and holds the        *)
(* variables of the other parts at rest.                                   *)
(***************************************************************************)
GOff ==
    /\ gpc = "off" /\ gcfg = NoGrid /\ gdone = {} /\ gwrites = <<>>

TOff ==
    /\ tsize_k = 0 /\ tpc = <<>> /\ tk = <<>> /\ ti = <<>> /\ arrived = <<>>
    /\ storage_a_tag = <<>> /\ storage_b_tag = <<>> /\ seen = <<>>

KOff ==
    /\ kin = NoKernel /\ kpc = "off" /\ kk = 0
    /\ loader_a = NoArgs /\ loader_b = NoArgs
    /\ storage_a = <<>> /\ storage_b = <<>> /\ accumulator = <<>>
    /\ issued = <<>> /\ matrix_c = <<>>

Init == DInit /\ GOff /\ TOff /\ KOff

Next == CallSparseMatmul \/ CallBatchedSparseMatmulOp \/ NextCall

Spec == Init /\ [][Next]_vars

DOff == DInit

GridInit == GInit /\ DOff /\ TOff /\ KOff

GridNext == RunWorkGroup \/ GridComplete

SpecGrid == GridInit /\ [][GridNext]_vars

PipeInit == TInit /\ DOff /\ GOff /\ KOff

PipeNext ==
    \/ \E t \in Threads : CommitA(t)
    \/ \E t \in Threads : CommitB(t)
    \/ \E t \in Threads : SyncArrive(t)
    \/ \E t \in Threads : SyncLeave(t)
    \/ \E t \in Threads : Prefetch(t)
    \/ \E t \in Threads : Read(t)
    \/ \E t \in Threads : WriteOut(t)

SpecPipe == PipeInit /\ [][PipeNext]_vars

SddInit == KInit /\ DOff /\ GOff /\ TOff

SddNext == Prime \/ Commit \/ PrefetchNext \/ PrefetchSkip \/ Accumulate \/ WriteC

SpecSdd == SddInit /\ [][SddNext]_vars

====
